---- MODULE Spec2Model ----
(***************************************************************************)
(* rckd: the HTTP service over the table `elus` (src/src/main.rs), with    *)
(* the SQLite connection shared by the request handlers behind a Mutex.    *)
(*                                                                         *)
(* A text value that is only compared (name, email) is a TLA+ string; a    *)
(* text value that is encoded or decoded (a mandate, the mandates column)  *)
(* is a sequence of one-character strings.                                 *)
(***************************************************************************)
EXTENDS Integers, Sequences, FiniteSets, TLC

\* Bounds of the model.
NumWorkers == 2
MaxRequests == 3

Workers == 1..NumWorkers

Names == {"Jean", "Marie"}
\* Two addresses that differ only by case.
Emails == {"j@x", "J@x"}

Maire == <<"M">>
Depute == <<"D">>
\* A mandate holding a double quote and a backslash.
Quoted == <<"\"", "\\">>
MandateLists == {<<>>, <<Maire>>, <<Quoted, Depute>>}

\* ------------------------------------------------------------------------
\* serde_json::to_string(&Vec<String>)

EscapeChar(c) ==
    IF c = "\"" THEN <<"\\", "\"">>
    ELSE IF c = "\\" THEN <<"\\", "\\">>
    ELSE <<c>>

RECURSIVE EncodeChars(_)
EncodeChars(s) ==
    IF s = <<>> THEN <<>> ELSE EscapeChar(Head(s)) \o EncodeChars(Tail(s))

EncodeStr(s) == <<"\"">> \o EncodeChars(s) \o <<"\"">>

RECURSIVE EncodeItems(_)
EncodeItems(l) ==
    IF l = <<>> THEN <<>>
    ELSE IF Len(l) = 1 THEN EncodeStr(l[1])
    ELSE EncodeStr(Head(l)) \o <<",">> \o EncodeItems(Tail(l))

\* Mutant: the strings are joined without escaping.
Encode_Unescaped(l) ==
    LET RECURSIVE Items(_)
        Items(x) ==
            IF x = <<>> THEN <<>>
            ELSE IF Len(x) = 1 THEN <<"\"">> \o x[1] \o <<"\"">>
            ELSE <<"\"">> \o Head(x) \o <<"\"">> \o <<",">> \o Items(Tail(x))
    IN <<"[">> \o Items(l) \o <<"]">>

Encode(l) == <<"[">> \o EncodeItems(l) \o <<"]">>

\* ------------------------------------------------------------------------
\* serde_json::from_str::<Vec<String>>

ParseFail == [ok |-> FALSE, val |-> <<>>, next |-> 0]

RECURSIVE SkipWs(_, _)
SkipWs(b, i) ==
    IF i <= Len(b) /\ b[i] = " " THEN SkipWs(b, i + 1) ELSE i

\* The characters of a string literal from position i (after its opening
\* quote) to its closing quote.
RECURSIVE ParseChars(_, _, _)
ParseChars(b, i, acc) ==
    IF i > Len(b) THEN ParseFail
    ELSE IF b[i] = "\"" THEN [ok |-> TRUE, val |-> acc, next |-> i + 1]
    ELSE IF b[i] = "\\"
         THEN IF i + 1 <= Len(b) /\ b[i + 1] \in {"\"", "\\"}
              THEN ParseChars(b, i + 2, Append(acc, b[i + 1]))
              ELSE ParseFail
    ELSE ParseChars(b, i + 1, Append(acc, b[i]))

ParseStr(b, i) ==
    IF i <= Len(b) /\ b[i] = "\"" THEN ParseChars(b, i + 1, <<>>) ELSE ParseFail

\* The elements of an array from position i, an element being due there.
RECURSIVE ParseItems(_, _, _)
ParseItems(b, i, acc) ==
    LET e == ParseStr(b, SkipWs(b, i)) IN
    IF ~e.ok THEN ParseFail
    ELSE LET j == SkipWs(b, e.next) IN
         IF j > Len(b) THEN ParseFail
         ELSE IF b[j] = "," THEN ParseItems(b, j + 1, Append(acc, e.val))
         ELSE IF b[j] = "]"
              THEN [ok |-> TRUE, val |-> Append(acc, e.val), next |-> j + 1]
         ELSE ParseFail

ParseArray(b) ==
    LET i == SkipWs(b, 1) IN
    IF i > Len(b) \/ b[i] # "[" THEN ParseFail
    ELSE LET j == SkipWs(b, i + 1) IN
         IF j <= Len(b) /\ b[j] = "]"
         THEN [ok |-> TRUE, val |-> <<>>, next |-> j + 1]
         ELSE ParseItems(b, j, <<>>)

FromStr(b) ==
    LET r == ParseArray(b) IN
    IF r.ok /\ SkipWs(b, r.next) > Len(b) THEN r ELSE ParseFail

\* ------------------------------------------------------------------------
\* impl From<PersonDB> for Person

MkPerson(n, e, m) == [name |-> n, email |-> e, mandates |-> m]

\* Mutant: a blob that does not decode is kept as the one mandate.
PersonFrom_KeepRaw(person) ==
    LET r == FromStr(person.mandates) IN
    MkPerson(person.name, person.email,
             IF r.ok THEN r.val ELSE <<person.mandates>>)

PersonFrom(person) ==
    LET r == FromStr(person.mandates) IN
    MkPerson(person.name, person.email, IF r.ok THEN r.val ELSE <<>>)

\* Mutant: the rows are mapped last to first.
RECURSIVE MapPersonFrom_Rev(_)
MapPersonFrom_Rev(rows) ==
    IF rows = <<>> THEN <<>>
    ELSE MapPersonFrom_Rev(Tail(rows)) \o <<PersonFrom(Head(rows))>>

RECURSIVE MapPersonFrom(_)
MapPersonFrom(rows) ==
    IF rows = <<>> THEN <<>>
    ELSE <<PersonFrom(Head(rows))>> \o MapPersonFrom(Tail(rows))

\* ------------------------------------------------------------------------
\* The table `elus` and the queries the handlers run on it.

MkRow(i, n, e, b) == [id |-> i, name |-> n, email |-> e, mandates |-> b]

NoRow == [found |-> FALSE, row |-> MkRow(0, "", "", <<>>)]

MinOf(S) == CHOOSE x \in S : \A y \in S : x <= y
MaxOf(S) == CHOOSE x \in S : \A y \in S : x >= y

\* Mutant: the email is matched without regard to case.
Lower(e) == IF e = "J@x" THEN "j@x" ELSE e
FirstByEmail_NoCase(s, e) ==
    LET idx == {i \in 1..Len(s) : Lower(s[i].email) = Lower(e)} IN
    IF idx = {} THEN [found |-> FALSE, row |-> MkRow(0, "", "", <<>>)]
    ELSE [found |-> TRUE, row |-> s[MinOf(idx)]]

\* elus.filter(email.eq(e)).select(..).first(conn), the read succeeding.
FirstByEmail(s, e) ==
    LET idx == {i \in 1..Len(s) : s[i].email = e} IN
    IF idx = {} THEN NoRow ELSE [found |-> TRUE, row |-> s[MinOf(idx)]]

\* Mutant: the name is looked for in the email column.
FirstByName_EmailColumn(s, n) ==
    LET idx == {i \in 1..Len(s) : s[i].email = n} IN
    IF idx = {} THEN [found |-> FALSE, row |-> MkRow(0, "", "", <<>>)]
    ELSE [found |-> TRUE, row |-> s[MinOf(idx)]]

\* elus.filter(name.eq(n)).select(..).first(conn), the read succeeding.
FirstByName(s, n) ==
    LET idx == {i \in 1..Len(s) : s[i].name = n} IN
    IF idx = {} THEN NoRow ELSE [found |-> TRUE, row |-> s[MinOf(idx)]]

\* Mutant: the id is the number of rows.
NextId_Count(s) == IF s = <<>> THEN 1 ELSE Len(s)

\* id INTEGER PRIMARY KEY AUTOINCREMENT: above every id the table has held
\* (no row is ever deleted, so above every id it holds).
NextId(s) ==
    IF s = <<>> THEN 1 ELSE MaxOf({s[i].id : i \in 1..Len(s)}) + 1

\* diesel::insert_into(elus).values(&new_person).execute(conn), the write
\* reaching the table: email TEXT NOT NULL UNIQUE rejects a held email.
InsertRow(s, np) ==
    IF \E i \in 1..Len(s) : s[i].email = np.email
    THEN [ok |-> FALSE, store |-> s]
    ELSE [ok |-> TRUE,
          store |-> Append(s, MkRow(NextId(s), np.name, np.email, np.mandates))]

\* ------------------------------------------------------------------------
\* State.

VARIABLES
    store,      \* the rows of `elus`, in rowid order
    holder,     \* the worker holding the Mutex guard, 0 when it is free
    poisoned,   \* the Mutex is poisoned: a holder panicked
    pc,         \* each worker's position in its handler
    req,        \* each worker's request
    resp,       \* each worker's response
    ioerr,      \* a store operation of the worker's request failed
    snap,       \* history: the store and `created` when the worker locked
    inserted,   \* history: the persons of the rows, in order of insertion
    created,    \* history: the inputs of the creates answered Ok
    nreq        \* requests received so far

vars == <<store, holder, poisoned, pc, req, resp, ioerr, snap, inserted,
          created, nreq>>

NoReq == [kind |-> "none", name |-> "", email |-> "", mandates |-> <<>>]
NoResp == [status |-> "none", body |-> <<>>]
NoSnap == [store |-> <<>>, created |-> {}]

\* The routes mounted on "/" that use the connection, by handler name.
CreateRoutes == {"create_person_new", "create_person_create"}
Routes == {"elus", "get_person_by_email"} \cup CreateRoutes

\* create_person_new and create_person_create both call create_person.
Handler(route) ==
    IF route \in CreateRoutes THEN "create_person" ELSE route

\* The data a handler is called with: search_email, or person_data.
Payloads(kind) ==
    IF kind = "elus" THEN {NoReq}
    ELSE IF kind = "get_person_by_email"
    THEN {[NoReq EXCEPT !.email = e] : e \in Emails}
    ELSE {[kind |-> "none", name |-> n, email |-> e, mandates |-> m] :
            n \in Names, e \in Emails, m \in MandateLists}

\* What the table may hold when the service starts (each with the persons
\* its rows stand for): nothing, or one row written by another tool whose
\* mandates column is not the encoding of a list of strings, or is one with
\* blanks in it.
Seeds ==
    { [rows |-> <<>>, persons |-> <<>>],
      [rows |-> <<MkRow(1, "Jean", "j@x", <<"M">>)>>,
       persons |-> <<MkPerson("Jean", "j@x", <<>>)>>],
      [rows |-> <<MkRow(1, "Jean", "j@x", <<"[", "\"", "M", "\"", ",", "]">>)>>,
       persons |-> <<MkPerson("Jean", "j@x", <<>>)>>],
      [rows |-> <<MkRow(1, "Jean", "j@x", <<"[", " ", "\"", "M", "\"", " ", "]">>)>>,
       persons |-> <<MkPerson("Jean", "j@x", <<Maire>>)>>],
      [rows |-> <<MkRow(1, "Jean", "j@x", <<"[", "\"", "M", "\"", "]", "]">>)>>,
       persons |-> <<MkPerson("Jean", "j@x", <<>>)>>],
      [rows |-> <<MkRow(1, "Jean", "j@x", <<"[", "\"", "\\", "M", "\"", "]">>)>>,
       persons |-> <<MkPerson("Jean", "j@x", <<>>)>>] }

Init ==
    /\ \E sd \in Seeds : store = sd.rows /\ inserted = sd.persons
    /\ holder = 0
    /\ poisoned = FALSE
    /\ pc = [w \in Workers |-> "idle"]
    /\ req = [w \in Workers |-> NoReq]
    /\ resp = [w \in Workers |-> NoResp]
    /\ ioerr = [w \in Workers |-> FALSE]
    /\ snap = [w \in Workers |-> NoSnap]
    /\ created = {}
    /\ nreq = 0

Input(w) == MkPerson(req[w].name, req[w].email, req[w].mandates)

\* The handler's first store operation.
FirstStep(kind) ==
    IF kind = "elus" THEN "load"
    ELSE IF kind = "get_person_by_email" THEN "find"
    ELSE "checkEmail"

\* The handler returns: the response goes out, the request's data and the
\* guard are dropped.
Return(w, status, body) ==
    /\ pc' = [pc EXCEPT ![w] = "done"]
    /\ resp' = [resp EXCEPT ![w] = [status |-> status, body |-> body]]
    /\ req' = [req EXCEPT ![w] = [NoReq EXCEPT !.kind = req[w].kind]]
    /\ snap' = [snap EXCEPT ![w] = NoSnap]
    /\ holder' = 0

\* Mutant: the guard is dropped after each store operation.
Goto_Unlock(w, step) ==
    /\ pc' = [pc EXCEPT ![w] = step]
    /\ holder' = 0
    /\ UNCHANGED <<resp, req, snap>>

\* The handler goes on to its next store operation, the guard held.
Goto(w, step) ==
    /\ pc' = [pc EXCEPT ![w] = step]
    /\ UNCHANGED <<resp, req, snap, holder>>

\* ------------------------------------------------------------------------
\* Actions.  `io` is the outcome of the step's store operation: "ok", or
\* "err" for a read or write that fails in the store itself.

Receive(w, route) ==
    /\ pc[w] \in {"idle", "done"}
    /\ nreq < MaxRequests
    /\ nreq' = nreq + 1
    /\ req' = [req EXCEPT ![w] = [NoReq EXCEPT !.kind = Handler(route)]]
    /\ resp' = [resp EXCEPT ![w] = NoResp]
    /\ ioerr' = [ioerr EXCEPT ![w] = FALSE]
    /\ pc' = [pc EXCEPT ![w] = "lock"]
    /\ UNCHANGED <<store, holder, poisoned, snap, inserted, created>>

\* Mutant: the handler does not wait for the Mutex.
Lock_NoWait(w, d) ==
    /\ pc[w] = "lock"
    /\ pc' = [pc EXCEPT ![w] = FirstStep(req[w].kind)]
    /\ holder' = w
    /\ req' = [req EXCEPT ![w] = [d EXCEPT !.kind = req[w].kind]]
    /\ snap' = [snap EXCEPT ![w] = [store |-> store, created |-> created]]
    /\ UNCHANGED <<resp, store, poisoned, ioerr, inserted, created, nreq>>

\* db.lock().unwrap(): waits for the Mutex; panics when it is poisoned.
\* The handler reads its data `d` only once it holds the guard, so the
\* model draws the data here.
Lock(w, d) ==
    /\ pc[w] = "lock"
    /\ holder = 0
    /\ IF poisoned
       THEN Return(w, "InternalServerError", <<>>)
       ELSE /\ pc' = [pc EXCEPT ![w] = FirstStep(req[w].kind)]
            /\ holder' = w
            /\ req' = [req EXCEPT ![w] = [d EXCEPT !.kind = req[w].kind]]
            /\ snap' = [snap EXCEPT ![w] =
                          [store |-> store, created |-> created]]
            /\ UNCHANGED resp
    /\ UNCHANGED <<store, poisoned, ioerr, inserted, created, nreq>>

\* GET /elus
Load(w, io) ==
    /\ pc[w] = "load"
    /\ ioerr' = [ioerr EXCEPT ![w] = ioerr[w] \/ io = "err"]
    /\ IF io = "err"
       THEN \* .expect("Error loading persons") panics with the guard held
            /\ poisoned' = TRUE
            /\ Return(w, "InternalServerError", <<>>)
       ELSE /\ Return(w, "Ok", MapPersonFrom(store))
            /\ UNCHANGED poisoned
    /\ UNCHANGED <<store, inserted, created, nreq>>

\* GET /elus/<search_email>
Find(w, io) ==
    /\ pc[w] = "find"
    /\ ioerr' = [ioerr EXCEPT ![w] = ioerr[w] \/ io = "err"]
    /\ LET r == FirstByEmail(store, req[w].email) IN
       IF io = "ok" /\ r.found
       THEN Return(w, "Ok", <<PersonFrom(r.row)>>)
       ELSE Return(w, "NotFound", <<>>)
    /\ UNCHANGED <<store, poisoned, inserted, created, nreq>>

\* create_person: "Check if email already exists"
CheckEmail(w, io) ==
    /\ pc[w] = "checkEmail"
    /\ ioerr' = [ioerr EXCEPT ![w] = ioerr[w] \/ io = "err"]
    /\ LET email_exists == io = "ok" /\ FirstByEmail(store, req[w].email).found IN
       IF email_exists
       THEN Return(w, "Conflict", <<>>)
       ELSE Goto(w, "checkName")
    /\ UNCHANGED <<store, poisoned, inserted, created, nreq>>

\* create_person: "Check if name already exists"
CheckName(w, io) ==
    /\ pc[w] = "checkName"
    /\ ioerr' = [ioerr EXCEPT ![w] = ioerr[w] \/ io = "err"]
    /\ LET name_exists == io = "ok" /\ FirstByName(store, req[w].name).found IN
       IF name_exists
       THEN Return(w, "Conflict", <<>>)
       ELSE Goto(w, "insert")
    /\ UNCHANGED <<store, poisoned, inserted, created, nreq>>

\* create_person: "Create new person"
Insert(w, io) ==
    /\ pc[w] = "insert"
    /\ ioerr' = [ioerr EXCEPT ![w] = ioerr[w] \/ io = "err"]
    /\ LET new_person == [name |-> req[w].name, email |-> req[w].email,
                          mandates |-> Encode(req[w].mandates)]
           r == InsertRow(store, new_person)
       IN IF io = "ok" /\ r.ok
          THEN /\ store' = r.store
               /\ inserted' = Append(inserted, Input(w))
               /\ Goto(w, "reread")
          ELSE /\ Return(w, "InternalServerError", <<>>)
               /\ UNCHANGED <<store, inserted>>
    /\ UNCHANGED <<poisoned, created, nreq>>

\* create_person: "Return the created person"
Reread(w, io) ==
    /\ pc[w] = "reread"
    /\ ioerr' = [ioerr EXCEPT ![w] = ioerr[w] \/ io = "err"]
    /\ LET r == FirstByEmail(store, req[w].email) IN
       IF io = "ok" /\ r.found
       THEN /\ Return(w, "Ok", <<PersonFrom(r.row)>>)
            /\ created' = created \cup {Input(w)}
       ELSE /\ Return(w, "InternalServerError", <<>>)
            /\ UNCHANGED created
    /\ UNCHANGED <<store, poisoned, inserted, nreq>>

Step(w, io) ==
    \/ Load(w, io)
    \/ Find(w, io)
    \/ CheckEmail(w, io)
    \/ CheckName(w, io)
    \/ Insert(w, io)
    \/ Reread(w, io)

Arrive(w) ==
    \/ \E route \in Routes : Receive(w, route)
    \/ \E d \in Payloads(req[w].kind) : Lock(w, d)

\* The store never fails.
Next == \E w \in Workers : Arrive(w) \/ Step(w, "ok")

Spec == Init /\ [][Next]_vars

\* The store may fail any read or write.
NextFault ==
    \E w \in Workers : Arrive(w) \/ \E io \in {"ok", "err"} : Step(w, io)

SpecFault == Init /\ [][NextFault]_vars

\* ------------------------------------------------------------------------
\* Properties.

CreateSteps == {"checkEmail", "checkName", "insert", "reread"}
Critical == CreateSteps \cup {"load", "find"}

\* Worker w's handler returns in this step.
CreateReturns(w) == pc[w] \in CreateSteps /\ pc'[w] = "done"
FindReturns(w) == pc[w] = "find" /\ pc'[w] = "done"
LoadReturns(w) == pc[w] = "load" /\ pc'[w] = "done"

Absent(s, p) ==
    \A i \in 1..Len(s) : s[i].email # p.email /\ s[i].name # p.name

\* The mandates texts of the rows that are not encodings of a list of
\* strings: bare text, a trailing comma, text after the array, an escape
\* JSON does not have.
CorruptBlobs ==
    { <<"M">>,
      <<"[", "\"", "M", "\"", ",", "]">>,
      <<"[", "\"", "M", "\"", "]", "]">>,
      <<"[", "\"", "\\", "M", "\"", "]">> }

\* C1: a create whose name and email the store did not hold is answered Ok
\* with the input person, and a find-by-email that starts after such a
\* create was answered returns the input person, mandates in order.
C1_CreateThenFind ==
    [][\A w \in Workers :
        /\ (CreateReturns(w) /\ Absent(snap[w].store, Input(w)))
              => resp'[w] = [status |-> "Ok", body |-> <<Input(w)>>]
        /\ FindReturns(w)
              => \A p \in snap[w].created :
                    p.email = req[w].email
                        => resp'[w] = [status |-> "Ok", body |-> <<p>>]
      ]_vars

C1_Witness ==
    \E w \in Workers :
        /\ pc[w] = "done"
        /\ req[w].kind = "get_person_by_email"
        /\ resp[w].status = "Ok"
        /\ resp[w].body[1] \in created
        /\ resp[w].body[1].mandates = <<Quoted, Depute>>

\* C2: a create whose email or name the store already held is answered
\* Conflict and leaves the store as it was.
C2_DuplicateConflict ==
    [][\A w \in Workers :
        (CreateReturns(w) /\ ~Absent(snap[w].store, Input(w)))
            => /\ resp'[w] = [status |-> "Conflict", body |-> <<>>]
               /\ store' = snap[w].store
      ]_vars

C2_Witness ==
    \E w \in Workers :
        /\ pc[w] = "done"
        /\ req[w].kind = "create_person"
        /\ resp[w].status = "Conflict"
        /\ store # <<>>

\* C3: no two rows share an email and no two rows share a name.
C3_Unique ==
    \A i, j \in 1..Len(store) :
        i # j => store[i].email # store[j].email /\ store[i].name # store[j].name

\* Two rows, the second being inserted by a create while another create
\* waits for the Mutex.
C3_Witness ==
    /\ Len(store) = 2
    /\ \E w, v \in Workers :
        /\ pc[w] = "reread"
        /\ pc[v] = "lock"
        /\ req[v].kind = "create_person"

\* C4: find-by-email answers Not Found when no row holds exactly the email,
\* answers Ok with the row of exactly that email when one does, and leaves
\* the store as it was.
C4_FindByEmail ==
    [][\A w \in Workers :
        FindReturns(w) =>
            LET hits == {i \in 1..Len(store) : store[i].email = req[w].email} IN
            /\ store' = store
            /\ hits = {} => resp'[w] = [status |-> "NotFound", body |-> <<>>]
            /\ hits # {} =>
                  /\ resp'[w].status = "Ok"
                  /\ Len(resp'[w].body) = 1
                  /\ resp'[w].body[1].email = req[w].email
                  /\ \E i \in hits : resp'[w].body[1].name = store[i].name
      ]_vars

\* The first request: a find of "J@x", the store holding "j@x" only.
C4_Witness ==
    \E w \in Workers :
        /\ nreq = 1
        /\ pc[w] = "done"
        /\ req[w].kind = "get_person_by_email"
        /\ resp[w].status = "NotFound"
        /\ Len(store) = 1
        /\ store[1].email = "j@x"

\* C5: list-all answers Ok with exactly the persons inserted so far, in
\* insertion order, mandates as lists.
C5_ListAll ==
    [][\A w \in Workers :
        LoadReturns(w) => resp'[w] = [status |-> "Ok", body |-> inserted]
      ]_vars

C5_Witness ==
    \E w \in Workers :
        /\ pc[w] = "done"
        /\ req[w].kind = "elus"
        /\ resp[w].status = "Ok"
        /\ Len(resp[w].body) = 2
        /\ resp[w].body[2].mandates = <<Quoted, Depute>>
        /\ \E v \in Workers : resp[v].status = "Conflict"

\* C6: a find-by-email whose read fails is answered with an internal error.
C6_ReadFailureIsInternal ==
    \A w \in Workers :
        (pc[w] = "done" /\ req[w].kind = "get_person_by_email" /\ ioerr[w])
            => resp[w].status = "InternalServerError"

\* C7: a row whose mandates text is corrupt is listed, and found by its
\* email, with an empty mandates list; the answer is Ok.
C7_CorruptIsEmpty ==
    [][\A w \in Workers :
        /\ LoadReturns(w) =>
              /\ resp'[w].status = "Ok"
              /\ Len(resp'[w].body) = Len(store)
              /\ \A i \in 1..Len(store) :
                    store[i].mandates \in CorruptBlobs
                        => resp'[w].body[i] =
                              MkPerson(store[i].name, store[i].email, <<>>)
        /\ FindReturns(w) =>
              \A i \in 1..Len(store) :
                  (store[i].email = req[w].email
                      /\ store[i].mandates \in CorruptBlobs)
                      => resp'[w] =
                            [status |-> "Ok",
                             body |-> <<MkPerson(store[i].name, store[i].email,
                                                 <<>>)>>]
      ]_vars

\* A corrupt row has been listed along with a created one, and found.
C7_Witness ==
    /\ store # <<>>
    /\ store[1].mandates \in CorruptBlobs
    /\ \E w, v \in Workers :
        /\ pc[w] = "done" /\ req[w].kind = "elus"
        /\ Len(resp[w].body) = 2
        /\ resp[w].body[1].mandates = <<>>
        /\ resp[w].body[2].mandates = <<Maire>>
        /\ pc[v] = "done" /\ req[v].kind = "get_person_by_email"
        /\ resp[v] = [status |-> "Ok",
                      body |-> <<MkPerson("Jean", "j@x", <<>>)>>]

\* C8: every step keeps every row as it is, and a row it adds has an id no
\* row had.
C8_StoreOnlyGrows ==
    [][/\ Len(store') >= Len(store)
       /\ \A i \in 1..Len(store) : store'[i] = store[i]
       /\ \A j \in (Len(store) + 1)..Len(store') :
             \A i \in 1..Len(store) : store'[j].id # store[i].id
      ]_vars

\* Two rows, after a create that failed.
C8_Witness ==
    /\ Len(store) = 2
    /\ store[2].id = 2
    /\ \E w \in Workers : pc[w] = "done" /\ resp[w].status = "Conflict"

\* C9 as claimed: while a create is between two of its sub-steps, a request
\* waiting for the connection can go on to its store operation.
C9_Interleaves ==
    \A w, v \in Workers :
        (w # v /\ pc[w] \in {"checkName", "insert", "reread"} /\ pc[v] = "lock")
            => ENABLED (\E d \in Payloads(req[v].kind) : Lock(v, d))

\* C9 as amended: a handler holds the guard from before its first store
\* operation until it returns, so no two handlers are at a store operation
\* together, and no two creates are past the email check before the insert.
C9_CreateHoldsLock ==
    /\ \A w \in Workers : pc[w] \in Critical => holder = w
    /\ \A w, v \in Workers :
          (w # v /\ pc[w] \in Critical) => pc[v] \notin Critical

\* A create between its sub-steps while another create waits.
C9_Witness ==
    \E w, v \in Workers :
        /\ pc[w] = "insert"
        /\ pc[v] = "lock"
        /\ req[v].kind = "create_person"

\* C10: whenever no handler is at a store operation, the Mutex is free and
\* a request can take it and run its store operation.
C10_LockUsable ==
    (\A w \in Workers : pc[w] \notin Critical) => (holder = 0 /\ ~poisoned)

====
